---- MODULE Spec2Model ----
(***************************************************************************)
(* A model of sim-gan.py: the refined-image history buffer                 *)
(* (add_half_batch_to_image_history, get_half_batch_from_image_history)    *)
(* and the training schedule of adversarial_training.                      *)
(*                                                                         *)
(* An image is modelled by its identity <<g, j>>: the j-th image of the    *)
(* g-th batch of refined images.  A synthetic or real image batch is       *)
(* modelled by its length only (its pixels never reach the buffer).        *)
(*                                                                         *)
(* NumPy and Keras behaviour the code relies on is modelled by what it     *)
(* does: a basic slice a[:k] is a view of the array a, np.concatenate      *)
(* makes a new array, slice assignment and np.random.shuffle work in       *)
(* place, a slice assignment whose value cannot be broadcast to the        *)
(* target raises ValueError, and train_on_batch raises when inputs and     *)
(* targets differ in their number of samples.                              *)
(***************************************************************************)
EXTENDS Integers, Sequences, FiniteSets, TLC

\* ---------------------------------------------------------------- constants
\* batch_size (line 32).  The source sets 32; every use of it is batch_size / 2,
\* batch_size // 2, batch_size * k or a comparison with a length, so the model
\* takes the smallest even value: a half-batch is one image.
batch_size == 2
\* k_d, k_g (lines 33-34)
k_d == 1
k_g == 2
\* nb_steps (line 31): 10000 in the source, scaled down.
nb_steps == 5
\* The multiplier of line 40 (1000 in the source), scaled down: the buffer
\* holds HistoryMult * 2 half-batches.
HistoryMult == 2
history_buffer_max_size == batch_size * HistoryMult
\* range(1000) of line 194 and range(100) of line 201
RefinerPretrainSteps == 1000
DiscPretrainSteps == 100
\* The image directories hold 1..MaxDirSize images.
MaxDirSize == 3
\* The buffer's functions are called at most MaxAdds times with an insert.
MaxAdds == 6

half_batch_size == batch_size \div 2

\* DISC_SOFTMAX_OUTPUT_DIM (line 19) and the image dimensions (lines 24-26)
DISC_SOFTMAX_OUTPUT_DIM == 252
img_width == 55
img_height == 35
img_channels == 1
\* discriminator_network is also built for inputs that differ from
\* img_height x img_width by up to ShapeSlack rows and columns.
ShapeSlack == 2

VARIABLES
    refined_image_history_buffer,   \* the global of line 39: a sequence of images
    pc,                             \* where the program is
    i,                              \* the index of the running for-loop of adversarial_training
    inner,                          \* the index `_` of the running inner loop (lines 215, 222)
    synthetic_generator,            \* [n, pos]: directory size and read position
    real_generator,
    image_batch,                    \* length of the batch of line 196 (0: none yet)
    synthetic_image_batch,          \* length of the last synthetic batch (0: none yet)
    real_image_batch,               \* length of the last real batch (0: none yet)
    refined_image_batch,            \* the array of line 207 / 228: a sequence of images
    half_batch_from_image_history,  \* what the caller of the read holds (line 231)
    error,                          \* "none" or the exception that ended the call / the run
    last_call,                      \* the last buffer function called: "none", "get", "add"
    n_adds,                         \* inserts that returned normally
    n_predict,                      \* refiner_model.predict calls
    updates,                        \* train_on_batch calls per phase and model
    step_updates,                   \* train_on_batch calls of the running adversarial step
    params,                         \* per network built: the optimizer steps that changed its weights
    x,                              \* the tensor `x` of discriminator_network while it is built
    buffer_base                     \* refined_image_history_buffer.base: "None" if the buffer owns
                                    \* its memory, else the array it is a view of

vars == <<refined_image_history_buffer, pc, i, inner, synthetic_generator,
          real_generator, image_batch, synthetic_image_batch, real_image_batch,
          refined_image_batch, half_batch_from_image_history, error, last_call,
          n_adds, n_predict, updates, step_updates, params, x, buffer_base>>

orch_vars == <<pc, i, inner, synthetic_generator, real_generator, image_batch,
               synthetic_image_batch, real_image_batch, refined_image_batch,
               n_predict, updates, step_updates, params, x>>

\* ---------------------------------------------------------------- helpers
Min(a, b) == IF a <= b THEN a ELSE b

Range(s) == {s[k] : k \in 1..Len(s)}

\* a[:k] of a sequence
Prefix(s, k) == SubSeq(s, 1, Min(k, Len(s)))

\* np.random.shuffle(a): every order of the elements of a is a possible outcome
Shuffle(s) == {[k \in 1..Len(s) |-> s[p[k]]] : p \in Permutations(1..Len(s))}

\* np.zeros(shape=(0, ...)): the empty array of line 39 and line 63
EmptyArray == <<>>

\* The value a read hands out is a[:k], a NumPy view.  base = "buffer": a view
\* of the array the global names now, whose rows are read through the array;
\* base = "old": a view of an array the global no longer names, whose rows
\* are `data` for ever; base = "unset": the caller's variable is not assigned.
\* `stop` is the k of the slice.
UnsetView == [base |-> "unset", stop |-> 0, data |-> <<>>]

ViewData(v, buf) ==
    IF v.base = "buffer" THEN Prefix(buf, v.stop) ELSE v.data

\* the images the caller's half_batch_from_image_history shows now
HeldData == ViewData(half_batch_from_image_history, refined_image_history_buffer)

\* ---------------------------------------------------------------- networks and models
\* refiner_network / discriminator_network (lines 66-118): every call makes new
\* layers, with weights of their own.  The nth call's layers:
refiner_network(nth) == <<"refiner", nth>>
discriminator_network(nth) == <<"discriminator", nth>>

\* A tensor is modelled by the networks between the model input and it.
refined_image_tensor == {refiner_network(1)}                           \* line 127
discriminator_output == {discriminator_network(1)}                     \* line 130
combined_output == {refiner_network(2), discriminator_network(2)}      \* line 132

Networks == refined_image_tensor \cup discriminator_output \cup combined_output

\* models.Model (lines 137-141) with the losses of compile (lines 153-156)
refiner_model ==
    [name |-> "refiner", output |-> <<refined_image_tensor>>,
     loss |-> <<"self_regularization_loss">>]
discriminator_model ==
    [name |-> "discriminator", output |-> <<discriminator_output>>,
     loss |-> <<"categorical_crossentropy">>]
combined_model ==
    [name |-> "combined", output |-> <<refined_image_tensor, combined_output>>,
     loss |-> <<"self_regularization_loss", "categorical_crossentropy">>]

\* The weights a model trains: those of its layers.  Line 155 clears the flag of
\* the Model object discriminator_model after that model is compiled; none of
\* the layers of combined_model is that object, so all of them are trained.
TrainableNetworks(model) == UNION {model.output[k] : k \in 1..Len(model.output)}

\* no optimizer step yet
InitialParams == [p \in Networks |-> [steps |-> 0, reached_by |-> {}]]

\* model.train_on_batch: one optimizer step on every network the model trains;
\* reached_by keeps which model's which output's loss has reached the network.
train_on_batch(model, ps) ==
    [p \in Networks |->
        IF p \in TrainableNetworks(model)
        THEN [steps |-> ps[p].steps + 1,
              reached_by |-> ps[p].reached_by \cup
                  {<<model.name, k>> : k \in {o \in 1..Len(model.output) : p \in model.output[o]}}]
        ELSE ps[p]]

\* ---------------------------------------------------------------- discriminator shapes
\* The layers of discriminator_network (lines 110-118), all with
\* border_mode='same'.
discriminator_layers ==
    << [kind |-> "conv", nb_filter |-> 96, subsample |-> 2],      \* line 110
       [kind |-> "conv", nb_filter |-> 64, subsample |-> 2],      \* line 111
       [kind |-> "pool", nb_filter |-> 0, subsample |-> 1],       \* line 112
       [kind |-> "conv", nb_filter |-> 32, subsample |-> 1],      \* line 113
       [kind |-> "conv", nb_filter |-> 32, subsample |-> 1],      \* line 114
       [kind |-> "conv", nb_filter |-> 2, subsample |-> 1],       \* line 115
       [kind |-> "reshape", nb_filter |-> 0, subsample |-> 1],    \* line 117
       [kind |-> "softmax", nb_filter |-> 0, subsample |-> 1] >>  \* line 118

\* a length after a layer that rounds down, as border_mode='valid' striding would
FloorOutputLength(n, stride) == n \div stride

\* the output length of a 'same'-padded layer: ceil(n / stride)
SameOutputLength(n, stride) == (n + stride - 1) \div stride

\* the shape after one layer; Reshape raises unless the sizes agree
LayerOutput(l, shape) ==
    IF l.kind = "conv"
    THEN [error |-> "none",
          shape |-> <<SameOutputLength(shape[1], l.subsample),
                      SameOutputLength(shape[2], l.subsample), l.nb_filter>>]
    ELSE IF l.kind = "pool"
    THEN [error |-> "none",
          shape |-> <<SameOutputLength(shape[1], l.subsample),
                      SameOutputLength(shape[2], l.subsample), shape[3]>>]
    ELSE IF l.kind = "reshape"
    THEN IF shape[1] * shape[2] * shape[3] = DISC_SOFTMAX_OUTPUT_DIM
         THEN [error |-> "none", shape |-> <<DISC_SOFTMAX_OUTPUT_DIM>>]
         ELSE [error |-> "ValueError(reshape)", shape |-> shape]
    ELSE [error |-> "none", shape |-> shape]

\* no discriminator is being built
NoTensor == [input |-> <<>>, layer |-> 0, shape |-> <<>>]

\* ---------------------------------------------------------------- history buffer
\* refined_image_history_buffer[:batch_size // 2] = half_batch_generated_images
Overwrite(buf, half) ==
    [k \in 1..Len(buf) |-> IF k <= half_batch_size THEN half[k] ELSE buf[k]]

\* Variants of the buffer's functions with one plausible slip each.
\* `<=` for `<` in line 47: appends at capacity too.
add_appending_at_capacity(buf, half_batch_generated_images) ==
    IF 2 * Len(half_batch_generated_images) # batch_size
    THEN {[error |-> "AssertionError", buffer |-> buf, rebound |-> FALSE, base |-> "None"]}
    ELSE IF Len(buf) <= history_buffer_max_size
    THEN {[error |-> "none", buffer |-> s, rebound |-> TRUE, base |-> "None"] :
              s \in Shuffle(buf \o half_batch_generated_images)}
    ELSE {[error |-> "AssertFalse", buffer |-> buf, rebound |-> FALSE, base |-> "None"]}

\* overwrites the first slice of a filling buffer too instead of appending
add_overwriting_while_filling(buf, half_batch_generated_images) ==
    IF 2 * Len(half_batch_generated_images) # batch_size
    THEN {[error |-> "AssertionError", buffer |-> buf, rebound |-> FALSE, base |-> "None"]}
    ELSE IF Len(buf) < half_batch_size
    THEN {[error |-> "none", buffer |-> s, rebound |-> TRUE, base |-> "None"] :
              s \in Shuffle(buf \o half_batch_generated_images)}
    ELSE {[error |-> "none", buffer |-> s, rebound |-> FALSE, base |-> "None"] :
              s \in Shuffle(Overwrite(buf, half_batch_generated_images))}

\* at capacity, shuffles without writing the new half-batch
add_dropping_at_capacity(buf, half_batch_generated_images) ==
    IF 2 * Len(half_batch_generated_images) # batch_size
    THEN {[error |-> "AssertionError", buffer |-> buf, rebound |-> FALSE, base |-> "None"]}
    ELSE IF Len(buf) < history_buffer_max_size
    THEN {[error |-> "none", buffer |-> s, rebound |-> TRUE, base |-> "None"] :
              s \in Shuffle(buf \o half_batch_generated_images)}
    ELSE {[error |-> "none", buffer |-> s, rebound |-> FALSE, base |-> "None"] : s \in Shuffle(buf)}

\* shuffles only after the overwrite at capacity; under capacity it appends in order
add_shuffling_only_at_capacity(buf, half_batch_generated_images) ==
    IF 2 * Len(half_batch_generated_images) # batch_size
    THEN {[error |-> "AssertionError", buffer |-> buf, rebound |-> FALSE, base |-> "None"]}
    ELSE IF Len(buf) < history_buffer_max_size
    THEN {[error |-> "none", buffer |-> buf \o half_batch_generated_images, rebound |-> TRUE, base |-> "None"]}
    ELSE {[error |-> "none", buffer |-> s, rebound |-> FALSE, base |-> "None"] :
              s \in Shuffle(Overwrite(buf, half_batch_generated_images))}

\* at capacity, overwrites the last slice instead of the first
add_overwriting_last_slice(buf, half_batch_generated_images) ==
    IF 2 * Len(half_batch_generated_images) # batch_size
    THEN {[error |-> "AssertionError", buffer |-> buf, rebound |-> FALSE, base |-> "None"]}
    ELSE IF Len(buf) < history_buffer_max_size
    THEN {[error |-> "none", buffer |-> s, rebound |-> TRUE, base |-> "None"] :
              s \in Shuffle(buf \o half_batch_generated_images)}
    ELSE {[error |-> "none", buffer |-> s, rebound |-> FALSE, base |-> "None"] :
              s \in Shuffle(SubSeq(buf, 1, Len(buf) - half_batch_size)
                               \o half_batch_generated_images)}

\* checks the length of its argument only after the shuffle of line 54
add_asserting_after_shuffle(buf, half_batch_generated_images) ==
    IF 2 * Len(half_batch_generated_images) # batch_size
    THEN {[error |-> "AssertionError", buffer |-> s, rebound |-> FALSE, base |-> "None"] : s \in Shuffle(buf)}
    ELSE IF Len(buf) < history_buffer_max_size
    THEN {[error |-> "none", buffer |-> s, rebound |-> TRUE, base |-> "None"] :
              s \in Shuffle(buf \o half_batch_generated_images)}
    ELSE {[error |-> "none", buffer |-> s, rebound |-> FALSE, base |-> "None"] :
              s \in Shuffle(Overwrite(buf, half_batch_generated_images))}

\* under capacity, keeps the argument itself as the buffer instead of a
\* concatenation, so that the buffer is a view of the caller's array
add_keeping_reference(buf, half_batch_generated_images) ==
    IF 2 * Len(half_batch_generated_images) # batch_size
    THEN {[error |-> "AssertionError", buffer |-> buf, rebound |-> FALSE, base |-> "None"]}
    ELSE IF Len(buf) < history_buffer_max_size
    THEN {[error |-> "none", buffer |-> s, rebound |-> TRUE, base |-> "refined_image_batch"] :
              s \in Shuffle(half_batch_generated_images)}
    ELSE {[error |-> "none", buffer |-> s, rebound |-> FALSE, base |-> "None"] :
              s \in Shuffle(Overwrite(buf, half_batch_generated_images))}

\* add_half_batch_to_image_history (lines 43-54): the possible outcomes of one
\* call.  rebound: the global names a new array (np.concatenate) afterwards;
\* base: the .base of that array ("None": np.concatenate copies its inputs).
add_half_batch_to_image_history(buf, half_batch_generated_images) ==
    IF 2 * Len(half_batch_generated_images) # batch_size
    THEN {[error |-> "AssertionError", buffer |-> buf, rebound |-> FALSE, base |-> "None"]}
    ELSE IF Len(buf) < history_buffer_max_size
    THEN {[error |-> "none", buffer |-> s, rebound |-> TRUE, base |-> "None"] :
              s \in Shuffle(buf \o half_batch_generated_images)}
    ELSE IF Len(buf) = history_buffer_max_size
    THEN {[error |-> "none", buffer |-> s, rebound |-> FALSE, base |-> "None"] :
              s \in Shuffle(Overwrite(buf, half_batch_generated_images))}
    ELSE {[error |-> "AssertFalse", buffer |-> buf, rebound |-> FALSE, base |-> "None"]}

\* returns the empty array of line 63 whatever the buffer holds
get_always_empty ==
    [base |-> "old", stop |-> batch_size \div 2, data |-> EmptyArray]

\* get_half_batch_from_image_history (lines 57-63): slicing never raises
\* IndexError, so the except branch is dead and the result is always the view
\* refined_image_history_buffer[:batch_size // 2] (empty for the empty buffer).
get_half_batch_from_image_history ==
    [base |-> "buffer", stop |-> batch_size \div 2, data |-> <<>>]

\* What a view held across an insert becomes.
AfterAdd(v, buf, out) ==
    IF out.rebound /\ v.base = "buffer"
    THEN [base |-> "old", stop |-> v.stop, data |-> ViewData(v, buf)]
    ELSE v

\* refined_image_batch[:batch_size // 2] = value (line 235): the value is copied
\* if it has the target's length, repeated if it is one row, and cannot be
\* broadcast otherwise (a ValueError, which `except IndexError` does not catch).
Splice(batch, value) ==
    LET target_len == Min(batch_size \div 2, Len(batch))
    IN  IF Len(value) = target_len
        THEN [error |-> "none",
              batch |-> [k \in 1..Len(batch) |-> IF k <= target_len THEN value[k] ELSE batch[k]]]
        ELSE IF Len(value) = 1
        THEN [error |-> "none",
              batch |-> [k \in 1..Len(batch) |-> IF k <= target_len THEN value[1] ELSE batch[k]]]
        ELSE [error |-> "ValueError(broadcast)", batch |-> batch]

\* The buffer after the splice sp: the rows written to refined_image_batch show
\* in the buffer only if the buffer is a view of refined_image_batch.
AfterSplice(buf, base, sp) ==
    IF base = "refined_image_batch" /\ sp.error = "none"
    THEN Prefix(sp.batch, Len(buf))
    ELSE buf

\* ------------------------------------------------- the buffer's functions, called freely
\* The g-th batch of refined images, cut to len images.
RefinedImages(g, len) == [j \in 1..len |-> <<g, j>>]

BufInit ==
    /\ refined_image_history_buffer = EmptyArray
    /\ pc = "module"
    /\ i = 0
    /\ inner = 0
    /\ synthetic_generator = [n |-> 1, pos |-> 0]
    /\ real_generator = [n |-> 1, pos |-> 0]
    /\ image_batch = 0
    /\ synthetic_image_batch = 0
    /\ real_image_batch = 0
    /\ refined_image_batch = <<>>
    /\ half_batch_from_image_history = UnsetView
    /\ error = "none"
    /\ last_call = "none"
    /\ n_adds = 0
    /\ n_predict = 0
    /\ updates = [refiner_pretrain |-> 0, disc_pretrain |-> 0, combined |-> 0, disc |-> 0]
    /\ step_updates = [combined |-> 0, disc |-> 0]
    /\ params = InitialParams
    /\ x = NoTensor
    /\ buffer_base = "None"

\* a read that removes what it returns from the buffer
Get_consuming ==
    /\ pc = "module"
    /\ half_batch_from_image_history' =
           [base |-> "old", stop |-> batch_size \div 2,
            data |-> Prefix(refined_image_history_buffer, batch_size \div 2)]
    /\ refined_image_history_buffer' =
           SubSeq(refined_image_history_buffer, (batch_size \div 2) + 1,
                  Len(refined_image_history_buffer))
    /\ refined_image_batch' = RefinedImages(n_adds + 1, batch_size)
    /\ error' = "none"
    /\ last_call' = "get"
    /\ UNCHANGED <<n_adds, buffer_base>>
    /\ UNCHANGED <<pc, i, inner, synthetic_generator, real_generator, image_batch,
                   synthetic_image_batch, real_image_batch, n_predict, updates,
                   step_updates, params, x>>

\* half_batch_from_image_history = get_half_batch_from_image_history(), made
\* as in lines 228-231 after the refiner has returned a new refined_image_batch
Get ==
    /\ pc = "module"
    /\ refined_image_batch' = RefinedImages(n_adds + 1, batch_size)
    /\ half_batch_from_image_history' = get_half_batch_from_image_history
    /\ error' = "none"
    /\ last_call' = "get"
    /\ UNCHANGED <<refined_image_history_buffer, n_adds, buffer_base>>
    /\ UNCHANGED <<pc, i, inner, synthetic_generator, real_generator, image_batch,
                   synthetic_image_batch, real_image_batch, n_predict, updates,
                   step_updates, params, x>>

\* add_half_batch_to_image_history(refined_image_batch[:len]) for the
\* refined_image_batch the refiner has returned last (line 228) and a len in
\* 0..batch_size (batch_size // 2 in line 232)
Add ==
    /\ pc = "module"
    /\ n_adds < MaxAdds
    /\ refined_image_batch' = RefinedImages(n_adds + 1, batch_size)
    /\ \E len \in 0..batch_size :
         \E out \in add_half_batch_to_image_history(
                        refined_image_history_buffer, RefinedImages(n_adds + 1, len)) :
            /\ refined_image_history_buffer' = out.buffer
            /\ buffer_base' = IF out.rebound THEN out.base ELSE buffer_base
            /\ error' = out.error
            /\ n_adds' = IF out.error = "none" THEN n_adds + 1 ELSE n_adds
            /\ half_batch_from_image_history' =
                   AfterAdd(half_batch_from_image_history, refined_image_history_buffer, out)
    /\ last_call' = "add"
    /\ UNCHANGED <<pc, i, inner, synthetic_generator, real_generator, image_batch,
                   synthetic_image_batch, real_image_batch, n_predict, updates,
                   step_updates, params, x>>

\* lines 234-238 after an insert of refined_image_batch[:batch_size // 2]: the
\* splice of what the last read returned into refined_image_batch
SpliceHistory ==
    /\ pc = "module"
    /\ last_call = "add"
    /\ error = "none"
    /\ LET sp == Splice(refined_image_batch, Prefix(HeldData, batch_size \div 2))
       IN  /\ refined_image_batch' = sp.batch
           /\ error' = sp.error
           /\ refined_image_history_buffer' =
                  AfterSplice(refined_image_history_buffer, buffer_base, sp)
    /\ last_call' = "splice"
    /\ UNCHANGED <<half_batch_from_image_history, n_adds, buffer_base, pc, i, inner,
                   synthetic_generator, real_generator, image_batch, synthetic_image_batch,
                   real_image_batch, n_predict, updates, step_updates, params, x>>

BufNext == Get \/ Add

BufSpec == BufInit /\ [][BufNext]_vars

\* the buffer's functions and the splice, called freely
SpliceNext == Get \/ Add \/ SpliceHistory

SpliceSpec == BufInit /\ [][SpliceNext]_vars

\* ---------------------------------------------------------------- image sources
\* generator.next() of a directory iterator over gen.n images with
\* batch_size = batch_size (lines 165-178): the next batch_size images, or the
\* remainder of the epoch (line 181), after which it starts over.
next(gen) ==
    LET len == Min(batch_size, gen.n - gen.pos)
    IN  [batch |-> len, gen |-> [n |-> gen.n, pos |-> (gen.pos + len) % gen.n]]

\* get_image_batch (lines 180-186)
get_image_batch(generator) ==
    LET img_batch == next(generator)
    IN  IF img_batch.batch # batch_size THEN next(img_batch.gen) ELSE img_batch

\* y_real, y_refined (lines 189-190): batch_size rows each
y_real == batch_size
y_refined == batch_size

\* model.train_on_batch(x, y) returns iff x and y have the same number of samples
TrainOK(x_len, y_len) == x_len = y_len

\* ---------------------------------------------------------------- adversarial_training
Init ==
    /\ refined_image_history_buffer = EmptyArray
    /\ pc = "refiner_pretrain"
    /\ i = 0
    /\ inner = 0
    /\ synthetic_generator \in {[n |-> k, pos |-> 0] : k \in 1..MaxDirSize}
    /\ real_generator \in {[n |-> k, pos |-> 0] : k \in 1..MaxDirSize}
    /\ image_batch = 0
    /\ synthetic_image_batch = 0
    /\ real_image_batch = 0
    /\ refined_image_batch = <<>>
    /\ half_batch_from_image_history = UnsetView
    /\ error = "none"
    /\ last_call = "none"
    /\ n_adds = 0
    /\ n_predict = 0
    /\ updates = [refiner_pretrain |-> 0, disc_pretrain |-> 0, combined |-> 0, disc |-> 0]
    /\ step_updates = [combined |-> 0, disc |-> 0]
    /\ params = InitialParams
    /\ x = NoTensor
    /\ buffer_base = "None"

\* one iteration of the loop of lines 194-197
RefinerPretrainStep ==
    /\ pc = "refiner_pretrain"
    /\ error = "none"
    /\ LET b == get_image_batch(synthetic_generator)
           ok == TrainOK(b.batch, b.batch)
       IN  /\ synthetic_generator' = b.gen
           /\ image_batch' = b.batch
           /\ error' = IF ok THEN "none" ELSE "ValueError(samples)"
           /\ updates' = IF ok THEN [updates EXCEPT !.refiner_pretrain = @ + 1] ELSE updates
           /\ params' = IF ok THEN train_on_batch(refiner_model, params) ELSE params
           /\ i' = IF ~ok THEN i ELSE IF i + 1 = RefinerPretrainSteps THEN 0 ELSE i + 1
           /\ pc' = IF ok /\ i + 1 = RefinerPretrainSteps THEN "disc_pretrain" ELSE pc
    /\ UNCHANGED <<refined_image_history_buffer, inner, real_generator,
                   synthetic_image_batch, real_image_batch, refined_image_batch,
                   half_batch_from_image_history, last_call, n_adds, n_predict,
                   step_updates, x, buffer_base>>

\* one iteration of the loop of lines 201-208
DiscPretrainStep ==
    /\ pc = "disc_pretrain"
    /\ error = "none"
    /\ LET r == get_image_batch(real_generator)
           ok1 == TrainOK(r.batch, y_real)
           s == get_image_batch(synthetic_generator)
           refined == RefinedImages(n_predict + 1, s.batch)
           ok2 == TrainOK(Len(refined), y_refined)
       IN  /\ real_generator' = r.gen
           /\ real_image_batch' = r.batch
           /\ synthetic_generator' = IF ok1 THEN s.gen ELSE synthetic_generator
           /\ synthetic_image_batch' = IF ok1 THEN s.batch ELSE synthetic_image_batch
           /\ n_predict' = IF ok1 THEN n_predict + 1 ELSE n_predict
           /\ refined_image_batch' = IF ok1 THEN refined ELSE refined_image_batch
           /\ error' = IF ok1 /\ ok2 THEN "none" ELSE "ValueError(samples)"
           /\ updates' = [updates EXCEPT !.disc_pretrain =
                              @ + (IF ~ok1 THEN 0 ELSE IF ~ok2 THEN 1 ELSE 2)]
           /\ params' = IF ~ok1 THEN params
                         ELSE IF ~ok2 THEN train_on_batch(discriminator_model, params)
                         ELSE train_on_batch(discriminator_model,
                                             train_on_batch(discriminator_model, params))
           /\ i' = IF ~(ok1 /\ ok2) THEN i ELSE IF i + 1 = DiscPretrainSteps THEN 0 ELSE i + 1
           /\ pc' = IF ok1 /\ ok2 /\ i + 1 = DiscPretrainSteps THEN "adv_refiner" ELSE pc
    /\ UNCHANGED <<refined_image_history_buffer, inner, image_batch,
                   half_batch_from_image_history, last_call, n_adds, step_updates, x,
                   buffer_base>>

\* one iteration of the loop of lines 215-220
RefinerUpdateStep ==
    /\ pc = "adv_refiner"
    /\ error = "none"
    /\ LET s == get_image_batch(synthetic_generator)
           ok == TrainOK(s.batch, y_real)
       IN  /\ synthetic_generator' = s.gen
           /\ synthetic_image_batch' = s.batch
           /\ error' = IF ok THEN "none" ELSE "ValueError(samples)"
           /\ updates' = IF ok THEN [updates EXCEPT !.combined = @ + 1] ELSE updates
           /\ params' = IF ok THEN train_on_batch(combined_model, params) ELSE params
           /\ step_updates' =
                  IF ~ok THEN (IF inner = 0 THEN [combined |-> 0, disc |-> 0] ELSE step_updates)
                  ELSE IF inner = 0 THEN [combined |-> 1, disc |-> 0]
                  ELSE [step_updates EXCEPT !.combined = @ + 1]
           /\ inner' = IF ~ok THEN inner ELSE IF inner + 1 = k_g * 2 THEN 0 ELSE inner + 1
           /\ pc' = IF ok /\ inner + 1 = k_g * 2 THEN "adv_disc" ELSE pc
    /\ UNCHANGED <<refined_image_history_buffer, i, real_generator, image_batch,
                   real_image_batch, refined_image_batch,
                   half_batch_from_image_history, last_call, n_adds, n_predict, x,
                   buffer_base>>

\* one iteration of the loop of lines 222-242
DiscUpdateStep ==
    /\ pc = "adv_disc"
    /\ error = "none"
    /\ LET s == get_image_batch(synthetic_generator)
           r == get_image_batch(real_generator)
           refined == RefinedImages(n_predict + 1, s.batch)
           view == get_half_batch_from_image_history
       IN  \E out \in add_half_batch_to_image_history(
                          refined_image_history_buffer, Prefix(refined, batch_size \div 2)) :
             LET held == AfterAdd(view, refined_image_history_buffer, out)
                 sp == Splice(refined, Prefix(ViewData(held, out.buffer), batch_size \div 2))
                 ok1 == TrainOK(r.batch, y_real)
                 ok2 == TrainOK(Len(sp.batch), y_refined)
                 err == IF out.error # "none" THEN out.error
                        ELSE IF sp.error # "none" THEN sp.error
                        ELSE IF ok1 /\ ok2 THEN "none" ELSE "ValueError(samples)"
                 trained == IF out.error # "none" \/ sp.error # "none" \/ ~ok1 THEN 0
                            ELSE IF ~ok2 THEN 1 ELSE 2
                 last == inner + 1 = k_d
             IN  /\ synthetic_generator' = s.gen
                 /\ synthetic_image_batch' = s.batch
                 /\ real_generator' = r.gen
                 /\ real_image_batch' = r.batch
                 /\ n_predict' = n_predict + 1
                 /\ half_batch_from_image_history' = held
                 /\ buffer_base' = IF out.rebound THEN out.base ELSE buffer_base
                 /\ refined_image_history_buffer' =
                        IF out.error = "none"
                        THEN AfterSplice(out.buffer, buffer_base', sp)
                        ELSE out.buffer
                 /\ n_adds' = IF out.error = "none" THEN n_adds + 1 ELSE n_adds
                 /\ refined_image_batch' = IF out.error = "none" THEN sp.batch ELSE refined
                 /\ error' = err
                 /\ updates' = [updates EXCEPT !.disc = @ + trained]
                 /\ params' = IF trained = 0 THEN params
                               ELSE IF trained = 1
                               THEN train_on_batch(discriminator_model, params)
                               ELSE train_on_batch(discriminator_model,
                                                   train_on_batch(discriminator_model, params))
                 /\ step_updates' = [step_updates EXCEPT !.disc = @ + trained]
                 /\ inner' = IF err # "none" THEN inner ELSE IF last THEN 0 ELSE inner + 1
                 /\ i' = IF err = "none" /\ last THEN i + 1 ELSE i
                 /\ pc' = IF err # "none" \/ ~last THEN pc
                          ELSE IF i + 1 = nb_steps THEN "done" ELSE "adv_refiner"
    /\ last_call' = "add"
    /\ UNCHANGED <<image_batch, x>>

Next == RefinerPretrainStep \/ DiscPretrainStep \/ RefinerUpdateStep \/ DiscUpdateStep

Spec == Init /\ [][Next]_vars

\* ---------------------------------------------------------------- properties
\* the images of the g-th inserted half-batch
HalfBatchImages(g) == Range(RefinedImages(g, half_batch_size))

\* the number of half-batches the buffer holds at capacity
CapacityInHalfBatches == history_buffer_max_size \div half_batch_size

\* C1: whatever inserts and reads are made from the empty buffer, the buffer
\* never holds more than history_buffer_max_size images and the `assert False`
\* branch of the insert is never taken.
C1_SizeWithinCapacity ==
    /\ Len(refined_image_history_buffer) <= history_buffer_max_size
    /\ error # "AssertFalse"

\* an insert has been made into the buffer at capacity
C1_InsertedAtCapacity ==
    /\ last_call = "add"
    /\ error = "none"
    /\ n_adds = CapacityInHalfBatches + 1
    /\ Len(refined_image_history_buffer) = history_buffer_max_size

\* C2: after N inserts the buffer holds N half-batches while that is below the
\* capacity and the capacity from then on, and no step makes the buffer smaller.
C2_SizeGrowsThenStays ==
    /\ [](Len(refined_image_history_buffer)
            = Min(n_adds * half_batch_size, history_buffer_max_size))
    /\ [][Len(refined_image_history_buffer') >= Len(refined_image_history_buffer)]_vars

\* two inserts have been made at capacity
C2_TwoInsertsAtCapacity ==
    /\ n_adds = CapacityInHalfBatches + 2
    /\ Len(refined_image_history_buffer) = history_buffer_max_size

\* C4 as stated: with a capacity of 4 half-batches, after the 5th insert the
\* buffer holds 4 half-batches, and they are the 4 inserted last.
C4_RetainsFourMostRecent ==
    (CapacityInHalfBatches = 4 /\ n_adds = 5) =>
        /\ Len(refined_image_history_buffer) = 4 * half_batch_size
        /\ Range(refined_image_history_buffer)
             = HalfBatchImages(2) \cup HalfBatchImages(3)
                 \cup HalfBatchImages(4) \cup HalfBatchImages(5)

\* C4 as amended: with a capacity of 4 half-batches, after the 5th insert the
\* buffer holds 4 half-batches of pairwise different images: every image of the
\* 5th half-batch, and for the rest images of the first four half-batches.
C4_RetainsNewestAndOlderImages ==
    (CapacityInHalfBatches = 4 /\ n_adds = 5) =>
        /\ Len(refined_image_history_buffer) = 4 * half_batch_size
        /\ Cardinality(Range(refined_image_history_buffer)) = 4 * half_batch_size
        /\ HalfBatchImages(5) \subseteq Range(refined_image_history_buffer)
        /\ Range(refined_image_history_buffer) \ HalfBatchImages(5)
             \subseteq HalfBatchImages(1) \cup HalfBatchImages(2)
                         \cup HalfBatchImages(3) \cup HalfBatchImages(4)

\* after the 5th insert the half-batch inserted first is still in the buffer
C4_FirstHalfBatchSurvives ==
    /\ CapacityInHalfBatches = 4
    /\ n_adds = 5
    /\ HalfBatchImages(1) \subseteq Range(refined_image_history_buffer)

\* C5: a read that follows the insert of one half-batch into the empty buffer
\* returns the images of that half-batch, in some order.
C5_ReadAfterFirstInsert ==
    (n_adds = 1 /\ last_call = "get") =>
        /\ Len(HeldData) = half_batch_size
        /\ Range(HeldData) = HalfBatchImages(1)

\* a read has followed the first insert
C5_ReadFirstHalfBatch ==
    /\ n_adds = 1
    /\ last_call = "get"
    /\ error = "none"
    /\ HeldData = RefinedImages(1, half_batch_size)

\* C6: a read never raises, returns the first half_batch_size images of the
\* buffer (none from the empty buffer) and leaves the buffer as it is, so a read
\* that follows a read returns the same images.
C6_ReadReturnsFirstSliceAndKeepsBuffer ==
    [][last_call' = "get" =>
         /\ error' = "none"
         /\ refined_image_history_buffer' = refined_image_history_buffer
         /\ HeldData' = Prefix(refined_image_history_buffer, half_batch_size)
         /\ (last_call = "get" => HeldData' = HeldData)]_vars

\* a read has been made from the buffer at capacity, after an overwrite
C6_ReadAtCapacity ==
    /\ last_call = "get"
    /\ n_adds > CapacityInHalfBatches
    /\ Len(HeldData) = half_batch_size

\* C3: the discriminator iteration that finds the buffer empty, given full
\* batches, reads an empty half-batch, raises nothing, trains the discriminator
\* twice and uses the refined batch as it came from the refiner.
C3_EmptyHistoryTolerated ==
    [][(/\ pc = "adv_disc"
        /\ n_predict' # n_predict
        /\ refined_image_history_buffer = EmptyArray
        /\ synthetic_image_batch' = batch_size
        /\ real_image_batch' = batch_size) =>
         /\ HeldData' = EmptyArray
         /\ error' = "none"
         /\ refined_image_batch' = RefinedImages(n_predict', batch_size)
         /\ updates'.disc = updates.disc + 2]_vars

\* C7: every batch get_image_batch has handed over has batch_size images.
C7_OnlyFullBatchesHandedOver ==
    /\ image_batch \in {0, batch_size}
    /\ synthetic_image_batch \in {0, batch_size}
    /\ real_image_batch \in {0, batch_size}

\* the first adversarial step has run to its end or has been stopped in its
\* discriminator phase
FirstStepOver ==
    \/ pc = "adv_disc" /\ error # "none" /\ i = 0
    \/ pc = "adv_refiner" /\ inner = 0 /\ i = 1
    \/ pc = "done" /\ i = 1

\* C8: the first adversarial step of a run issues 4 updates of the combined
\* model and 2 of the discriminator (k_g = 2, k_d = 1).
C8_FourCombinedTwoDiscriminatorUpdates ==
    FirstStepOver => step_updates = [combined |-> 4, disc |-> 2]

\* C9: with directories that hold a full batch, refiner pretraining
\* (RefinerPretrainSteps updates), discriminator pretraining (DiscPretrainSteps
\* iterations of two updates) and the adversarial steps come in this order, and
\* the run does not stop before it has made all nb_steps adversarial steps.
C9_PhasesInOrderAndRunFinishes ==
    (synthetic_generator.n >= batch_size /\ real_generator.n >= batch_size) =>
        /\ updates.refiner_pretrain <= RefinerPretrainSteps
        /\ updates.disc_pretrain <= 2 * DiscPretrainSteps
        /\ updates.disc_pretrain > 0 => updates.refiner_pretrain = RefinerPretrainSteps
        /\ (updates.combined > 0 \/ updates.disc > 0) =>
               updates.disc_pretrain = 2 * DiscPretrainSteps
        /\ error = "none"
        /\ pc = "done" => i = nb_steps

\* C10: when an insert follows a read, as in every discriminator iteration
\* (lines 231-232), the half-batch the caller holds for the splice shows only
\* images the buffer held before the insert.
C10_HeldHalfBatchPredatesInsert ==
    [][(last_call = "get" /\ last_call' = "add" /\ error' = "none") =>
         Range(HeldData') \subseteq Range(refined_image_history_buffer)]_vars

\* C11: in an adversarial step the refiner phase makes k_g updates of the
\* combined model, and the k_d discriminator iterations that follow make two
\* updates of the discriminator each.
C11_RefinerPhaseMakesKgUpdates ==
    /\ pc = "adv_disc" => step_updates.combined = k_g
    /\ FirstStepOver => step_updates = [combined |-> k_g, disc |-> 2 * k_d]

\* ---------------------------------------------------------------- building the discriminator
\* discriminator_network applied to an input of img_height and img_width give
\* or take ShapeSlack, one layer per step
ShapeInit ==
    /\ x \in {[input |-> <<h, w, img_channels>>, layer |-> 0, shape |-> <<h, w, img_channels>>] :
                h \in (img_height - ShapeSlack)..(img_height + ShapeSlack),
                w \in (img_width - ShapeSlack)..(img_width + ShapeSlack)}
    /\ refined_image_history_buffer = EmptyArray
    /\ pc = "discriminator_network"
    /\ i = 0
    /\ inner = 0
    /\ synthetic_generator = [n |-> 1, pos |-> 0]
    /\ real_generator = [n |-> 1, pos |-> 0]
    /\ image_batch = 0
    /\ synthetic_image_batch = 0
    /\ real_image_batch = 0
    /\ refined_image_batch = <<>>
    /\ half_batch_from_image_history = UnsetView
    /\ error = "none"
    /\ last_call = "none"
    /\ n_adds = 0
    /\ n_predict = 0
    /\ updates = [refiner_pretrain |-> 0, disc_pretrain |-> 0, combined |-> 0, disc |-> 0]
    /\ step_updates = [combined |-> 0, disc |-> 0]
    /\ params = InitialParams
    /\ buffer_base = "None"

\* x = layers.<layer>(...)(x): the next line of lines 110-118
ApplyLayer ==
    /\ pc = "discriminator_network"
    /\ error = "none"
    /\ x.layer < Len(discriminator_layers)
    /\ LET out == LayerOutput(discriminator_layers[x.layer + 1], x.shape)
       IN  /\ error' = out.error
           /\ x' = IF out.error = "none"
                    THEN [x EXCEPT !.layer = @ + 1, !.shape = out.shape]
                    ELSE x
    /\ UNCHANGED <<refined_image_history_buffer, pc, i, inner, synthetic_generator,
                   real_generator, image_batch, synthetic_image_batch, real_image_batch,
                   refined_image_batch, half_batch_from_image_history, last_call,
                   n_adds, n_predict, updates, step_updates, params, buffer_base>>

ShapeNext == ApplyLayer

ShapeSpec == ShapeInit /\ [][ShapeNext]_vars

\* ceil(n / 2)
CeilHalf(n) == (n + 1) \div 2

\* C14: for an img_height x img_width input the Reshape of line 117 to
\* DISC_SOFTMAX_OUTPUT_DIM is accepted, and that length equals
\* ceil(ceil(img_height/2)/2) * ceil(ceil(img_width/2)/2) * 2.
C14_OutputDimMatchesLayers ==
    x.input = <<img_height, img_width, img_channels>> =>
        /\ error = "none"
        /\ x.layer >= 7 => x.shape = <<DISC_SOFTMAX_OUTPUT_DIM>>
        /\ DISC_SOFTMAX_OUTPUT_DIM
             = CeilHalf(CeilHalf(img_height)) * CeilHalf(CeilHalf(img_width)) * 2

\* the discriminator has been built for the images of the program
C14_DiscriminatorBuilt ==
    /\ x.input = <<img_height, img_width, img_channels>>
    /\ x.layer = Len(discriminator_layers)
    /\ x.shape = <<DISC_SOFTMAX_OUTPUT_DIM>>
    /\ error = "none"

\* the refiner / discriminator networks among a set of networks
RefinersOf(nets) == {p \in nets : p[1] = "refiner"}
DiscriminatorsOf(nets) == {p \in nets : p[1] = "discriminator"}

\* C12: once the combined model has been updated, the adversarial loss (its
\* second output) has reached the refiner that refiner_model predicts with, and
\* the discriminators it is computed through are the ones discriminator_model
\* has trained.
C12_ModelsShareParameters ==
    updates.combined > 0 =>
        /\ \A p \in RefinersOf(TrainableNetworks(refiner_model)) :
               <<"combined", 2>> \in params[p].reached_by
        /\ \A p \in DiscriminatorsOf(combined_model.output[2]) :
               <<"discriminator", 1>> \in params[p].reached_by

\* C13: a step of refiner pretraining or of the refiner phase changes weights
\* of refiner networks only, a step of discriminator pretraining or of the
\* discriminator phase weights of discriminator networks only.
C13_PhasesWriteOwnParameters ==
    [][\A p \in Networks :
          params'[p] # params[p] =>
              p[1] = (IF pc \in {"refiner_pretrain", "adv_refiner"}
                      THEN "refiner" ELSE "discriminator")]_vars

\* the buffers a successful insert of the next half-batch can leave
BuffersAfterInsert ==
    {out.buffer : out \in add_half_batch_to_image_history(
                              refined_image_history_buffer,
                              RefinedImages(n_adds + 1, half_batch_size))}

\* C15 as stated: an insert under capacity appends the new half-batch after the
\* images the buffer holds and leaves these in their order.
C15_AppendKeepsOrder ==
    [][(/\ last_call' = "add"
        /\ n_adds' = n_adds + 1
        /\ Len(refined_image_history_buffer) < history_buffer_max_size) =>
         refined_image_history_buffer'
           = refined_image_history_buffer \o RefinedImages(n_adds', half_batch_size)]_vars

\* C15 as amended: the insert shuffles the whole buffer in both states.  Under
\* capacity every order of the stored images and the new half-batch can
\* result, at capacity every order of the buffer with its first slice
\* overwritten; and nothing else can.  What an insert leaves depends on the
\* buffer and the argument only, so each buffer is looked at once, where it has
\* been built by inserts alone and a further insert can be made.
C15_ShufflesAfterEveryInsert ==
    (half_batch_from_image_history = UnsetView /\ n_adds < MaxAdds) =>
        LET new == RefinedImages(n_adds + 1, half_batch_size)
        IN  BuffersAfterInsert
              = IF Len(refined_image_history_buffer) < history_buffer_max_size
                THEN Shuffle(refined_image_history_buffer \o new)
                ELSE Shuffle(Overwrite(refined_image_history_buffer, new))

\* an insert under capacity has put the new half-batch in front of an older one
C15_AppendReordered ==
    /\ last_call = "add"
    /\ error = "none"
    /\ n_adds = 2
    /\ n_adds < CapacityInHalfBatches
    /\ refined_image_history_buffer
         = RefinedImages(2, half_batch_size) \o RefinedImages(1, half_batch_size)

\* the images an insert of a half-batch leaves of those the buffer holds: all
\* of them under capacity, those behind the first slice at capacity
KeptByInsert ==
    IF Len(refined_image_history_buffer) < history_buffer_max_size
    THEN refined_image_history_buffer
    ELSE SubSeq(refined_image_history_buffer, half_batch_size + 1,
                Len(refined_image_history_buffer))

\* C16: no image is in the buffer twice, so that its images are a set.  A
\* successful insert leaves as many images as the buffer held, less the first
\* slice at capacity, plus the new half-batch; and they are those images: the
\* ones held, less the ones of the first slice at capacity, plus every new one.
\* The images an insert leaves depend on the buffer and the argument only, so
\* they are compared once for each buffer, where it has been built by inserts
\* alone and a further insert can be made.
C16_InsertConservesContent ==
    /\ [](Cardinality(Range(refined_image_history_buffer))
             = Len(refined_image_history_buffer))
    /\ [][(last_call' = "add" /\ n_adds' = n_adds + 1) =>
             Len(refined_image_history_buffer') = Len(KeptByInsert) + half_batch_size]_vars
    /\ []((half_batch_from_image_history = UnsetView /\ n_adds < MaxAdds) =>
             \A buf \in BuffersAfterInsert :
                 Range(buf) = Range(KeptByInsert)
                                \cup Range(RefinedImages(n_adds + 1, half_batch_size)))

\* an insert at capacity has evicted an image of the 2nd half-batch and kept
\* those of the 1st
C16_SecondHalfBatchEvicted ==
    /\ last_call = "add"
    /\ error = "none"
    /\ n_adds = CapacityInHalfBatches + 1
    /\ HalfBatchImages(n_adds) \subseteq Range(refined_image_history_buffer)
    /\ HalfBatchImages(1) \subseteq Range(refined_image_history_buffer)
    /\ ~(HalfBatchImages(2) \subseteq Range(refined_image_history_buffer))

\* C18: an insert of anything but batch_size/2 images raises AssertionError and
\* leaves the buffer, its order included, and what a reader holds as they were.
C18_WrongLengthLeavesBuffer ==
    /\ [](\A len \in 0..batch_size :
             len # half_batch_size =>
                 \A out \in add_half_batch_to_image_history(
                                refined_image_history_buffer, RefinedImages(n_adds + 1, len)) :
                     /\ out.error = "AssertionError"
                     /\ out.buffer = refined_image_history_buffer)
    /\ [][(last_call' = "add" /\ error' = "AssertionError") =>
             /\ refined_image_history_buffer' = refined_image_history_buffer
             /\ n_adds' = n_adds
             /\ HeldData' = HeldData]_vars

\* an insert of the wrong length has been refused by a buffer that holds images
C18_RefusedByFilledBuffer ==
    /\ last_call = "add"
    /\ error = "AssertionError"
    /\ Len(refined_image_history_buffer) >= 2 * half_batch_size

\* C17: the buffer owns the memory of its images, and the splice of lines
\* 234-238, made after the first half of refined_image_batch was inserted,
\* leaves the buffer's images, their order and their number as they were.
C17_SpliceLeavesBuffer ==
    /\ [](buffer_base = "None")
    /\ [][last_call' = "splice" =>
             refined_image_history_buffer' = refined_image_history_buffer]_vars

\* a splice has replaced the inserted first half of refined_image_batch, and
\* the buffer still holds the inserted images
C17_SplicedAfterInsert ==
    /\ last_call = "splice"
    /\ error = "none"
    /\ Prefix(refined_image_batch, half_batch_size) # RefinedImages(n_adds, half_batch_size)
    /\ HalfBatchImages(n_adds) \subseteq Range(refined_image_history_buffer)

====
